---- MODULE Spec2Model ----
(***************************************************************************)
(* Model of src/src/music.py: the MusicManager, its single playback        *)
(* session (the asyncio task running _play_track_list), the cancellation   *)
(* protocol and set_volume.                                                *)
(*                                                                         *)
(* Scheduling model: asyncio runs one task at a time and a task gives up   *)
(* control only at an await.  Every action below is therefore one task     *)
(* step: the code from one await (or the start of the coroutine) to the    *)
(* next await (or the end of the coroutine).                               *)
(***************************************************************************)
EXTENDS Integers, Sequences, FiniteSets, TLC

VARIABLES
    volume,             \* MusicManager.volume
    directory,          \* MusicManager.directory
    groups,             \* MusicManager.groups (tuple of MusicGroup)
    currently_playing,  \* MusicManager.currently_playing (None or CurrentlyPlaying)
    current_player,     \* MusicManager.current_player (None or a vlc.MediaPlayer)
    tasks,              \* the asyncio tasks created for _play_track_list, in creation order
    handles,            \* the vlc.MediaPlayer objects created, in creation order
    files,              \* the file system: the paths for which os.path.isfile is true
    callers,            \* the tasks of the external callers of the public coroutines
    nvolume,            \* number of calls of set_volume made by the callers so far
    config              \* the dict MusicManager.__init__ is about to be given (None once
                        \* the manager is constructed)

vars == <<volume, directory, groups, currently_playing, current_player,
          tasks, handles, files, callers, nvolume, config>>

\* Python's optional values: None is the empty tuple and a value x that is
\* present is <<x>>.  (Names of operations and of exceptions are plain strings,
\* with "None" for none.)
None == <<>>

Some(x) == <<x>>

Get(o) == o[1]

-----------------------------------------------------------------------------
(* Bounds of the model.                                                    *)

\* Number of _play_track_list tasks created in one behaviour.
MaxTasks == 2

\* Number of calls of set_volume the callers make in one behaviour.
MaxVolumeCalls == 1

\* Number of vlc.MediaPlayer objects created in one behaviour.
MaxHandles == 2

\* The external caller tasks.  Both call play_track_list and cancel; c1 also
\* calls set_volume.
Callers == {"c1", "c2"}

VolumeCallers == {"c1"}

\* Arguments the callers pass to set_volume.  130 is outside the documented
\* range 0..100; set_volume accepts any value.
VolumeInputs == {0, 130}

\* n_steps arguments the callers pass to set_volume.
StepInputs == {2}

\* Positions (ms) the engine may report for a playing handle.
TimeGrid == {0, 1000, 2000}

-----------------------------------------------------------------------------
(* Program constants.                                                      *)

\* Default n_steps of set_volume, used by the session's own fades.
DefaultNSteps == 20

-----------------------------------------------------------------------------
(* The configuration: the dicts the constructors are given, and the        *)
(* objects they build.  A dict is a function on the keys it has; a track   *)
(* config that is a plain str s is written [str |-> s]; a time string      *)
(* "%H:%M:%S" is written by its three numbers <<H, M, S>>.                 *)

HasKey(d, key) == key \in DOMAIN d

\* Track._convert_formatted_time_to_ms
ConvertFormattedTimeToMs(formatted_time) ==
    (formatted_time[3] + formatted_time[2] * 60 + formatted_time[1] * 3600) * 1000

\* Track.__init__
Track(cfg) ==
    LET start_at == IF HasKey(cfg, "str") \/ ~HasKey(cfg, "start_at")
                    THEN None ELSE Some(cfg.start_at)
        end_at == IF HasKey(cfg, "str") \/ ~HasKey(cfg, "end_at")
                  THEN None ELSE Some(cfg.end_at)
    IN  [file |-> IF HasKey(cfg, "str") THEN cfg.str ELSE cfg.file,
         start_at |-> IF start_at # None
                      THEN Some(ConvertFormattedTimeToMs(Get(start_at))) ELSE None,
         end_at |-> IF end_at # None
                    THEN Some(ConvertFormattedTimeToMs(Get(end_at))) ELSE None]

\* A mutant of TrackList: the tracks are stored in the reverse order.
TrackListReversed(cfg) ==
    [name |-> cfg.name,
     directory |-> IF HasKey(cfg, "directory") THEN Some(cfg.directory) ELSE None,
     loop |-> IF HasKey(cfg, "loop") THEN cfg.loop ELSE TRUE,
     shuffle |-> IF HasKey(cfg, "shuffle") THEN cfg.shuffle ELSE TRUE,
     tracks |-> [j \in 1..Len(cfg.tracks) |->
                    Track(cfg.tracks[Len(cfg.tracks) + 1 - j])]]

\* A mutant of TrackList: a config without "loop" gives a track list that
\* does not loop.
TrackListNotLooping(cfg) ==
    [name |-> cfg.name,
     directory |-> IF HasKey(cfg, "directory") THEN Some(cfg.directory) ELSE None,
     loop |-> IF HasKey(cfg, "loop") THEN cfg.loop ELSE FALSE,
     shuffle |-> IF HasKey(cfg, "shuffle") THEN cfg.shuffle ELSE TRUE,
     tracks |-> [j \in 1..Len(cfg.tracks) |-> Track(cfg.tracks[j])]]

\* TrackList.__init__
TrackList(cfg) ==
    [name |-> cfg.name,
     directory |-> IF HasKey(cfg, "directory") THEN Some(cfg.directory) ELSE None,
     loop |-> IF HasKey(cfg, "loop") THEN cfg.loop ELSE TRUE,
     shuffle |-> IF HasKey(cfg, "shuffle") THEN cfg.shuffle ELSE TRUE,
     tracks |-> [j \in 1..Len(cfg.tracks) |-> Track(cfg.tracks[j])]]

\* The names the configurations use, in the order of Python's str comparison
\* (by code point: upper case before lower case).
NameOrder == <<"B", "G", "T", "a", "b">>

NameRank(name) == CHOOSE i \in 1..Len(NameOrder) : NameOrder[i] = name

\* sorted(objects, key=lambda x: x.name): a stable sort, here by insertion.
RECURSIVE SortedByName(_)
SortedByName(objects) ==
    IF objects = <<>> THEN <<>>
    ELSE LET n == Len(objects)
             x == objects[n]
             s == SortedByName(SubSeq(objects, 1, n - 1))
             k == Cardinality({i \in 1..Len(s) :
                                  NameRank(s[i].name) <= NameRank(x.name)})
         IN  SubSeq(s, 1, k) \o <<x>> \o SubSeq(s, k + 1, Len(s))

\* A mutant of SortWanted: sorting only when the config asks for it.
SortOnlyWhenAsked(cfg) == HasKey(cfg, "sort") /\ cfg.sort

\* if "sort" not in config or ("sort" in config and config["sort"])
SortWanted(cfg) == ~HasKey(cfg, "sort") \/ cfg.sort

\* MusicGroup.__init__
MusicGroup(cfg) ==
    LET track_lists == [j \in 1..Len(cfg.track_lists) |-> TrackList(cfg.track_lists[j])]
    IN  [name |-> cfg.name,
         directory |-> IF HasKey(cfg, "directory") THEN Some(cfg.directory) ELSE None,
         track_lists |-> IF SortWanted(cfg) THEN SortedByName(track_lists)
                         ELSE track_lists]

\* The attributes MusicManager.__init__ assigns from the dict cfg, lines
\* 146-151.
Manager(cfg) ==
    LET gs == [j \in 1..Len(cfg.groups) |-> MusicGroup(cfg.groups[j])]
    IN  [volume |-> cfg.volume,
         directory |-> IF HasKey(cfg, "directory") THEN Some(cfg.directory) ELSE None,
         groups |-> IF SortWanted(cfg) THEN SortedByName(gs) ELSE gs]

\* The state of the manager after MusicManager.__init__(cfg).
MusicManagerInit(cfg) ==
    LET m == Manager(cfg)
    IN  /\ config = None
        /\ volume = m.volume
        /\ directory = m.directory
        /\ groups = m.groups
        /\ currently_playing = None
        /\ current_player = None

\* The track configs the model draws from, and the Track objects they make.
TrackConfigA == [str |-> "a.mp3"]
TrackConfigB == [file |-> "b.mp3", start_at |-> <<0, 0, 1>>, end_at |-> <<0, 0, 2>>]

TrackA == [file |-> "a.mp3", start_at |-> None, end_at |-> None]
TrackB == [file |-> "b.mp3", start_at |-> Some(1000), end_at |-> Some(2000)]

TrackConfigSeqs == {<<>>, <<TrackConfigA>>, <<TrackConfigA, TrackConfigB>>}

\* The track list configs the model draws from: loop and shuffle given, the
\* directory given or not.
TrackListConfigs ==
    [name : {"T"}, loop : BOOLEAN, shuffle : BOOLEAN, tracks : TrackConfigSeqs]
    \cup [name : {"T"}, directory : {"/jazz"}, loop : BOOLEAN, shuffle : BOOLEAN,
          tracks : TrackConfigSeqs]

\* os.path.join(root_directory, track.file)
JoinPath(root, file) == <<root, file>>

AllPaths == {JoinPath(d, f) : d \in {"/music", "/jazz"}, f \in {"a.mp3", "b.mp3"}}

\* The file system: every file is in /music, /jazz lacks b.mp3.
FileSystems == {AllPaths \ {JoinPath("/jazz", "b.mp3")}}

\* The configured volume: config["volume"], an int.
InitVolumes == {40}

\* Python indexing of a tuple: valid for -len <= i < len.
InRange(seq, i) == -Len(seq) <= i /\ i < Len(seq)

PyIndex(seq, i) == IF i >= 0 THEN seq[i + 1] ELSE seq[Len(seq) + i + 1]

\* Indices the callers pass to play_track_list.
IndexInputs == {0, 1}

-----------------------------------------------------------------------------
(* The media engine (vlc.MediaPlayer), at its interface.                   *)

\* vlc.MediaPlayer(vlc.Instance(), file_path), created by session task owner.
MediaPlayer(path, owner) ==
    [path |-> path, owner |-> owner, state |-> "new", volume |-> 100, time |-> 0]

\* The operations below take the handle h as stored in current_player: <<id>>.
AudioSetVolume(hs, h, v) == [hs EXCEPT ![Get(h)].volume = v]

AudioGetVolume(hs, h) == hs[Get(h)].volume

\* play() returns 0 and the handle plays, or returns -1.
Play(hs, h, success) ==
    [hs EXCEPT ![Get(h)].state = IF success = 0 THEN "playing" ELSE "failed"]

StopPlayer(hs, h) == [hs EXCEPT ![Get(h)].state = "stopped", ![Get(h)].time = 0]

IsPlaying(hs, h) == hs[Get(h)].state = "playing"

\* get_time(): the engine's position is its own; a read returns some position
\* at or after the one the handle was last set to.
GetTimes(hs, h) == {ms \in TimeGrid : ms >= hs[Get(h)].time}

SetTime(hs, h, ms) == [hs EXCEPT ![Get(h)].time = ms]

\* self.current_player is assigned while it holds cp: the program keeps no
\* other reference to that MediaPlayer, so its volume and position can never
\* be read or written again and are dropped from the state.  The engine-side
\* playing state stays.
Unreference(hs, cp) ==
    IF cp = None THEN hs
    ELSE [hs EXCEPT ![Get(cp)] = [path |-> @.path, owner |-> @.owner, state |-> @.state]]

-----------------------------------------------------------------------------
(* MusicManager._get_track_list_root_directory                             *)

\* The lookup with the group's directory consulted before the track list's.
GroupDirectoryFirst(group, track_list) ==
    LET root1 == IF group.directory # None THEN group.directory
                 ELSE track_list.directory
        root2 == IF root1 # None THEN root1 ELSE directory
    IN  IF root2 = None THEN [raised |-> "ValueError", value |-> ""]
        ELSE [raised |-> "None", value |-> Get(root2)]

GetTrackListRootDirectory(group, track_list) ==
    LET root1 == IF track_list.directory # None THEN track_list.directory
                 ELSE group.directory
        root2 == IF root1 # None THEN root1 ELSE directory
    IN  IF root2 = None THEN [raised |-> "ValueError", value |-> ""]
        ELSE [raised |-> "None", value |-> Get(root2)]

-----------------------------------------------------------------------------
(* MusicManager.set_volume: the arithmetic of one fade step.               *)

\* int(x) for the rational x = num / den, den > 0: truncation toward zero.
TruncDiv(num, den) == IF num >= 0 THEN num \div den ELSE -((-num) \div den)

\* new_volume of iteration i (0-based):
\*   step_size = (current_volume - volume) / n_steps
\*   new_volume = int(current_volume - (i + 1) * step_size)
\* The quotient is taken exactly; on the arguments drawn here (n_steps in
\* {2, 20}, volumes in 0..130) the float computation gives the same integer.
NewVolume(current_volume, vol, n_steps, i) ==
    TruncDiv(current_volume * n_steps - (i + 1) * (current_volume - vol), n_steps)

\* The values the loop of lines 281-284 writes, in order.  current_volume,
\* volume and n_steps are fixed when the loop starts, so the coroutine's state
\* between two iterations is the values it has still to write.
FadeWrites(current_volume, vol, n_steps) ==
    [j \in 1..n_steps |-> NewVolume(current_volume, vol, n_steps, j - 1)]

\* set_volume up to its first await (or its end): the value of the handles,
\* whether the coroutine is suspended in the fade, and the writes left to it.
SetVolumeFirst(hs, cp, vol, smooth, n_steps) ==
    IF cp = None THEN [handles |-> hs, suspended |-> FALSE, fade |-> <<>>]
    ELSE IF ~smooth
         THEN [handles |-> AudioSetVolume(hs, cp, vol), suspended |-> FALSE, fade |-> <<>>]
         ELSE LET writes == FadeWrites(AudioGetVolume(hs, cp), vol, n_steps)
              IN  [handles |-> AudioSetVolume(hs, cp, Head(writes)),
                   suspended |-> TRUE, fade |-> Tail(writes)]

-----------------------------------------------------------------------------
(* The session task: MusicManager._play_track_list                         *)
(*                                                                         *)
(* A task's pc is the await it is suspended at:                            *)
(*   "created"  the task exists and has not run its first step             *)
(*   "settle"   asyncio.sleep(0.1) after play()                  line 226  *)
(*   "fadein"   the sleep of set_volume called at                line 227  *)
(*   "poll"     asyncio.sleep(SLEEP_TIME) of the inner loop      line 232  *)
(*   "fadeout"  the sleep of set_volume called at                line 235  *)
(* or how it ended: "done" (returned), "cancelled" (CancelledError),       *)
(* "crashed" (another exception); "spin" is a first step that never        *)
(* reaches an await.                                                       *)

EndedPcs == {"done", "cancelled", "crashed"}

\* loop.create_task(self._play_track_list(group, track_list))
NewTask(group, track_list) ==
    [pc |-> "created", group |-> group, track_list |-> track_list,
     tracks |-> <<>>, k |-> 0, must_cancel |-> FALSE, exit |-> "None",
     fade |-> <<>>]

\* The coroutine has ended: its locals are gone.
EndedTask(task, pc, exit) ==
    [task EXCEPT !.pc = pc, !.exit = exit, !.tracks = <<>>, !.k = 0,
                 !.must_cancel = FALSE, !.fade = <<>>]

Alive(task) == task.pc \notin EndedPcs

\* Task.cancel(): no effect on a finished task; otherwise CancelledError is
\* thrown into the coroutine at its next step.
TaskCancel(ts, t) ==
    IF Alive(ts[t]) THEN [ts EXCEPT ![t].must_cancel = TRUE] ELSE ts

\* random.shuffle(tracks): any order of the working copy.
Shuffles(s) ==
    LET n == Len(s)
        Bij == {f \in [1..n -> 1..n] : \A a, b \in 1..n : a # b => f[a] # f[b]}
    IN  {[j \in 1..n |-> s[f[j]]] : f \in Bij}

\* The working copy shuffled whatever track_list.shuffle says.
AlwaysShuffled(track_list) == Shuffles(track_list.tracks)

\* tracks = list(track_list.tracks); if track_list.shuffle: random.shuffle(tracks)
WorkingCopies(track_list) ==
    IF track_list.shuffle THEN Shuffles(track_list.tracks) ELSE {track_list.tracks}

\* The handler without line 242: the engine handle is not stopped.
CleanupWithoutStop(t, hs, cp, why) ==
    /\ handles' = Unreference(hs, cp)
    /\ currently_playing' = None
    /\ current_player' = None
    /\ tasks' = [tasks EXCEPT ![t] = EndedTask(@, "cancelled", why)]

\* The handler without line 244: current_player keeps the stopped handle.
CleanupKeepingPlayer(t, hs, cp, why) ==
    /\ handles' = IF cp # None THEN StopPlayer(hs, cp) ELSE hs
    /\ currently_playing' = None
    /\ current_player' = cp
    /\ tasks' = [tasks EXCEPT ![t] = EndedTask(@, "cancelled", why)]

\* The handler of lines 240-246, entered with hs the handles and cp the value
\* of self.current_player at that moment.
Cleanup(t, hs, cp, why) ==
    /\ handles' = Unreference(IF cp # None THEN StopPlayer(hs, cp) ELSE hs, cp)
    /\ currently_playing' = None
    /\ current_player' = None
    /\ tasks' = [tasks EXCEPT ![t] = EndedTask(@, "cancelled", why)]

\* The coroutine returns after `break` (line 239): no handler runs.
Finish(t) ==
    /\ tasks' = [tasks EXCEPT ![t] = EndedTask(@, "done", "natural")]
    /\ UNCHANGED <<handles, currently_playing, current_player>>

\* An exception other than CancelledError leaves the coroutine: no handler runs.
Crash(t, exc) ==
    /\ tasks' = [tasks EXCEPT ![t] = EndedTask(@, "crashed", exc)]
    /\ UNCHANGED <<handles, currently_playing, current_player>>

\* `while True` over an empty track list with loop set: no await is reached.
Spin(t) ==
    /\ tasks' = [tasks EXCEPT ![t].pc = "spin"]
    /\ UNCHANGED <<handles, currently_playing, current_player>>

\* One iteration of `for track in tracks` up to its first await, lines 206-226.
StartTrack(t, trks, k) ==
    LET task == tasks[t]
        track == trks[k]
        root == GetTrackListRootDirectory(task.group, task.track_list)
        file_path == JoinPath(root.value, track.file)
        h == Some(Len(handles) + 1)
    IN  IF root.raised # "None" THEN Cleanup(t, handles, current_player, "nodir")
        ELSE IF file_path \notin files
             THEN Cleanup(t, handles, current_player, "nofile")
        ELSE /\ Len(handles) < MaxHandles
             /\ \E success \in {0, -1} :
                  LET hs1 == Append(Unreference(handles, current_player),
                                    MediaPlayer(file_path, t))
                      hs2 == AudioSetVolume(hs1, h, 0)
                      hs3 == Play(hs2, h, success)
                  IN  IF success = -1 THEN Cleanup(t, hs3, h, "startfail")
                      ELSE /\ handles' = IF track.start_at # None
                                         THEN SetTime(hs3, h, Get(track.start_at))
                                         ELSE hs3
                           /\ current_player' = h
                           /\ tasks' = [tasks EXCEPT ![t].pc = "settle",
                                                     ![t].tracks = trks,
                                                     ![t].k = k]
                           /\ UNCHANGED currently_playing

\* A pass of `while True` from its top, lines 202-205 and 238-239.
NewPass(t) ==
    LET track_list == tasks[t].track_list
    IN  IF Len(track_list.tracks) = 0
        THEN IF ~track_list.loop THEN Finish(t) ELSE Spin(t)
        ELSE \E trks \in WorkingCopies(track_list) : StartTrack(t, trks, 1)

\* After track k - 1 finished: the next track, or the end of the pass.
Continue(t, k) ==
    IF k <= Len(tasks[t].tracks) THEN StartTrack(t, tasks[t].tracks, k)
    ELSE IF ~tasks[t].track_list.loop THEN Finish(t)
    ELSE NewPass(t)

\* A mutant of PollCheck: the handle is stopped only once the position is
\* past end_at.
PollCheckPastEndAt(t) ==
    LET task == tasks[t]
        track == task.tracks[task.k]
        cp == current_player
    IN  IF cp = None THEN Crash(t, "AttributeError")
        ELSE IF IsPlaying(handles, cp)
        THEN /\ IF track.end_at # None
                THEN \E now \in GetTimes(handles, cp) :
                        handles' = IF now > Get(track.end_at)
                                   THEN StopPlayer(handles, cp) ELSE handles
                ELSE handles' = handles
             /\ tasks' = [tasks EXCEPT ![t].pc = "poll"]
             /\ UNCHANGED <<currently_playing, current_player>>
        ELSE Continue(t, task.k + 1)

\* `while self.current_player.is_playing()`, lines 228-232 and 237.
PollCheck(t) ==
    LET task == tasks[t]
        track == task.tracks[task.k]
        cp == current_player
    IN  IF cp = None THEN Crash(t, "AttributeError")
        ELSE IF IsPlaying(handles, cp)
        THEN /\ IF track.end_at # None
                THEN \E now \in GetTimes(handles, cp) :
                        handles' = IF now >= Get(track.end_at)
                                   THEN StopPlayer(handles, cp) ELSE handles
                ELSE handles' = handles
             /\ tasks' = [tasks EXCEPT ![t].pc = "poll"]
             /\ UNCHANGED <<currently_playing, current_player>>
        ELSE Continue(t, task.k + 1)

\* await self.set_volume(vol, set_global=False) up to its first await.
BeginSessionFade(t, pc, vol) ==
    LET r == SetVolumeFirst(handles, current_player, vol, TRUE, DefaultNSteps)
    IN  IF ~r.suspended
        THEN IF pc = "fadein" THEN Crash(t, "AttributeError")
             ELSE Cleanup(t, handles, current_player, "cancel")
        ELSE /\ handles' = r.handles
             /\ tasks' = [tasks EXCEPT ![t].pc = pc, ![t].must_cancel = FALSE,
                                       ![t].fade = r.fade]
             /\ UNCHANGED <<currently_playing, current_player>>

\* A task that never reaches an await keeps the event loop: nothing else runs.
Hung == \E t \in 1..Len(tasks) : tasks[t].pc = "spin"

SessionFrame == UNCHANGED <<volume, directory, groups, config, files, callers, nvolume>>

\* First step of the task.  A task cancelled before it ever ran ends
\* without executing any of the coroutine's body.
TaskFirstStep(t) ==
    /\ ~Hung
    /\ tasks[t].pc = "created"
    /\ IF tasks[t].must_cancel
       THEN /\ tasks' = [tasks EXCEPT ![t] = EndedTask(@, "cancelled", "unstarted")]
            /\ UNCHANGED <<handles, currently_playing, current_player>>
       ELSE NewPass(t)
    /\ SessionFrame

\* Resumption from the sleep of line 226.
SettleResume(t) ==
    /\ ~Hung
    /\ tasks[t].pc = "settle"
    /\ IF tasks[t].must_cancel
       THEN Cleanup(t, handles, current_player, "cancel")
       ELSE BeginSessionFade(t, "fadein", volume)
    /\ SessionFrame

\* Resumption from the sleep of line 284 inside the session's own fade.
FadeResume(t) ==
    /\ ~Hung
    /\ tasks[t].pc \in {"fadein", "fadeout"}
    /\ LET task == tasks[t]
       IN  IF task.must_cancel
           THEN Cleanup(t, handles, current_player, "cancel")
           ELSE IF task.fade # <<>>
           THEN IF current_player = None THEN Crash(t, "AttributeError")
                ELSE /\ handles' = AudioSetVolume(handles, current_player, Head(task.fade))
                     /\ tasks' = [tasks EXCEPT ![t].fade = Tail(task.fade)]
                     /\ UNCHANGED <<currently_playing, current_player>>
           ELSE IF task.pc = "fadein" THEN PollCheck(t)
           ELSE Cleanup(t, handles, current_player, "cancel")
    /\ SessionFrame

\* Resumption from the sleep of line 232.
PollResume(t) ==
    /\ ~Hung
    /\ tasks[t].pc = "poll"
    /\ IF tasks[t].must_cancel
       THEN BeginSessionFade(t, "fadeout", 0)
       ELSE PollCheck(t)
    /\ SessionFrame

-----------------------------------------------------------------------------
(* The external callers of play_track_list, cancel and set_volume.         *)
(*                                                                         *)
(* A caller's pc is "idle" between calls, or the await it is suspended at: *)
(*   "cancel_wait"  the sleep of cancel()'s loop (line 177), cancel()      *)
(*                  called directly                                        *)
(*   "play_cancel"  the same sleep, cancel() called by play_track_list     *)
(*   "play_sleep"   the sleep of line 193; task is the task it created     *)
(*   "vol_fade"     the sleep of line 284                                  *)
(* result tells how the caller's last call ended: "returned", or the name  *)
(* of the exception it raised ("None" before the first call has ended).    *)

IdleCaller ==
    [pc |-> "idle", result |-> "None",
     group |-> None, track_list |-> None, task |-> None,
     vol |-> 0, set_global |-> FALSE, fade |-> <<>>]

\* The call has ended: it returned, or raised an exception.
Ended(result) == [IdleCaller EXCEPT !.result = result]

\* play_track_list calls started that have not created their task yet.
PendingPlays == Cardinality({c \in Callers : callers[c].pc = "play_cancel"})

\* Lines 189-193: the task is created and recorded, then the caller sleeps.
CreateTask(c, group, track_list) ==
    /\ tasks' = Append(tasks, NewTask(group, track_list))
    /\ currently_playing' = Some([group |-> group, track_list |-> track_list,
                                  task |-> Len(tasks) + 1])
    /\ callers' = [callers EXCEPT ![c] = [IdleCaller EXCEPT !.pc = "play_sleep",
                                                            !.task = Some(Len(tasks) + 1)]]

\* cancel() that returns at once whatever is playing: what follows it runs
\* while the previous session is still alive.
CancelWithoutWaiting(c, me, waitpc, after) == after

\* cancel() whose loop sleeps before it tests currently_playing: it suspends
\* even when nothing is playing.
CancelSleepingFirst(c, me, waitpc, after) ==
    /\ tasks' = IF currently_playing = None THEN tasks
                ELSE TaskCancel(tasks, Get(currently_playing).task)
    /\ callers' = [callers EXCEPT ![c] = [me EXCEPT !.pc = waitpc]]
    /\ UNCHANGED <<currently_playing>>

\* cancel() up to its first await, lines 174-177, called by op with the
\* caller record me; `after` is what follows when it returns at once.
CancelFirst(c, me, waitpc, after) ==
    IF currently_playing = None THEN after
    ELSE /\ tasks' = TaskCancel(tasks, Get(currently_playing).task)
         /\ callers' = [callers EXCEPT ![c] = [me EXCEPT !.pc = waitpc]]
         /\ UNCHANGED <<currently_playing>>

\* play_track_list(group_index, track_list_index) up to its first await.
PlayTrackList(c, group_index, track_list_index) ==
    /\ ~Hung
    /\ callers[c].pc = "idle"
    /\ Len(tasks) + PendingPlays < MaxTasks
    /\ IF ~InRange(groups, group_index)
          \/ ~InRange(PyIndex(groups, group_index).track_lists, track_list_index)
       THEN /\ callers' = [callers EXCEPT ![c] = Ended("IndexError")]
            /\ UNCHANGED <<tasks, currently_playing>>
       ELSE LET group == PyIndex(groups, group_index)
                track_list == PyIndex(group.track_lists, track_list_index)
                me == [IdleCaller EXCEPT !.group = Some(group),
                                         !.track_list = Some(track_list)]
            IN  CancelFirst(c, me, "play_cancel", CreateTask(c, group, track_list))
    /\ UNCHANGED <<volume, directory, groups, config, files, handles, current_player,
                   nvolume>>

\* The loop of line 176 ends when currently_playing is None; play_track_list
\* goes on to create its task.  (An iteration that finds it set sleeps again
\* and changes nothing.)
PlayCancelResume(c) ==
    /\ ~Hung
    /\ callers[c].pc = "play_cancel"
    /\ currently_playing = None
    /\ CreateTask(c, Get(callers[c].group), Get(callers[c].track_list))
    /\ UNCHANGED <<volume, directory, groups, config, files, handles, current_player,
                   nvolume>>

\* Resumption from the sleep of line 193: play_track_list returns.  The task
\* it created was ready to run when the sleep began, so the event loop has
\* run that task's first step before the sleep is over.
PlaySleepResume(c) ==
    /\ ~Hung
    /\ callers[c].pc = "play_sleep"
    /\ tasks[Get(callers[c].task)].pc # "created"
    /\ callers' = [callers EXCEPT ![c] = Ended("returned")]
    /\ UNCHANGED <<volume, directory, groups, config, files, handles, current_player,
                   tasks, currently_playing, nvolume>>

\* cancel() called directly, up to its first await.
Cancel(c) ==
    /\ ~Hung
    /\ callers[c].pc = "idle"
    /\ CancelFirst(c, IdleCaller, "cancel_wait",
                   /\ callers' = [callers EXCEPT ![c] = Ended("returned")]
                   /\ UNCHANGED <<tasks, currently_playing>>)
    /\ UNCHANGED <<volume, directory, groups, config, files, handles, current_player,
                   nvolume>>

\* The loop of line 176 ends: cancel() returns.
CancelResume(c) ==
    /\ ~Hung
    /\ callers[c].pc = "cancel_wait"
    /\ currently_playing = None
    /\ callers' = [callers EXCEPT ![c] = Ended("returned")]
    /\ UNCHANGED <<volume, directory, groups, config, files, handles, current_player,
                   tasks, currently_playing, nvolume>>

\* A mutant of SetVolumeEnd: the volume is stored whatever set_global says.
SetVolumeEndStoring(c, vol, set_global) ==
    /\ volume' = vol
    /\ callers' = [callers EXCEPT ![c] = Ended("returned")]

\* Lines 285-287, then the coroutine returns.
SetVolumeEnd(c, vol, set_global) ==
    /\ volume' = IF set_global THEN vol ELSE volume
    /\ callers' = [callers EXCEPT ![c] = Ended("returned")]

\* set_volume(vol, set_global, smooth, n_steps) up to its first await.
SetVolume(c, vol, set_global, smooth, n_steps) ==
    /\ ~Hung
    /\ c \in VolumeCallers
    /\ callers[c].pc = "idle"
    /\ nvolume < MaxVolumeCalls
    /\ nvolume' = nvolume + 1
    /\ LET r == SetVolumeFirst(handles, current_player, vol, smooth, n_steps)
       IN  /\ handles' = r.handles
           /\ IF r.suspended
              THEN /\ callers' = [callers EXCEPT ![c] =
                          [IdleCaller EXCEPT !.pc = "vol_fade", !.vol = vol,
                                             !.set_global = set_global,
                                             !.fade = r.fade]]
                   /\ UNCHANGED volume
              ELSE SetVolumeEnd(c, vol, set_global)
    /\ UNCHANGED <<directory, groups, config, files, tasks, currently_playing, current_player>>

\* Resumption from the sleep of line 284: the next iteration of the fade,
\* which reads self.current_player again, or the end of the loop.
VolFadeResume(c) ==
    /\ ~Hung
    /\ callers[c].pc = "vol_fade"
    /\ LET me == callers[c]
       IN  IF me.fade # <<>>
           THEN IF current_player = None
                THEN /\ callers' = [callers EXCEPT ![c] =
                                        Ended("AttributeError")]
                     /\ UNCHANGED <<handles, volume>>
                ELSE /\ handles' = AudioSetVolume(handles, current_player, Head(me.fade))
                     /\ callers' = [callers EXCEPT ![c].fade = Tail(me.fade)]
                     /\ UNCHANGED volume
           ELSE /\ SetVolumeEnd(c, me.vol, me.set_global)
                /\ UNCHANGED handles
    /\ UNCHANGED <<directory, groups, config, files, tasks, currently_playing, current_player,
                   nvolume>>

-----------------------------------------------------------------------------
(* The engine's own step.                                                  *)

\* A playing handle reaches the end of its media.
EngineEnd(h) ==
    /\ handles[h].state = "playing"
    /\ handles' = [handles EXCEPT ![h].state = "ended", ![h].time = 0]
    /\ UNCHANGED <<volume, directory, groups, config, currently_playing, current_player,
                   tasks, files, callers, nvolume>>

-----------------------------------------------------------------------------
(* The specification.                                                      *)

\* The configurations the model starts from: one group of one track list.
\* Three kinds of configuration are left out because another one behaves the
\* same: a track list with its own directory under a manager without one
\* (the track list's directory wins either way), shuffle set on a track list
\* of fewer than two tracks (every order is the configured one), and a track
\* list in /jazz that does not name b.mp3 (its files exist, as in /music).
Configs ==
    LET GroupsOf(tl) == <<[name |-> "G", track_lists |-> <<tl>>]>>
        all == {[volume |-> v, groups |-> GroupsOf(tl)] :
                    v \in InitVolumes, tl \in TrackListConfigs}
               \cup {[volume |-> v, directory |-> "/music", groups |-> GroupsOf(tl)] :
                        v \in InitVolumes, tl \in TrackListConfigs}
    IN  {cfg \in all :
            LET tl == cfg.groups[1].track_lists[1]
            IN  /\ ~HasKey(cfg, "directory") => ~HasKey(tl, "directory")
                /\ (Len(tl.tracks) < 2) => ~tl.shuffle
                /\ (Len(tl.tracks) < 2) => ~HasKey(tl, "directory")}

\* MusicManager.__init__
Init ==
    /\ \E cfg \in Configs : MusicManagerInit(cfg)
    /\ files \in FileSystems
    /\ tasks = <<>>
    /\ handles = <<>>
    /\ callers = [c \in Callers |-> IdleCaller]
    /\ nvolume = 0

SessionStep(t) ==
    \/ TaskFirstStep(t)
    \/ SettleResume(t)
    \/ FadeResume(t)
    \/ PollResume(t)

CallerResume(c) ==
    \/ PlayCancelResume(c)
    \/ PlaySleepResume(c)
    \/ CancelResume(c)
    \/ VolFadeResume(c)

Next ==
    \/ \E t \in 1..Len(tasks) : TaskFirstStep(t)
    \/ \E t \in 1..Len(tasks) : SettleResume(t)
    \/ \E t \in 1..Len(tasks) : FadeResume(t)
    \/ \E t \in 1..Len(tasks) : PollResume(t)
    \/ \E c \in Callers, gi, ti \in IndexInputs : PlayTrackList(c, gi, ti)
    \/ \E c \in Callers : PlayCancelResume(c)
    \/ \E c \in Callers : PlaySleepResume(c)
    \/ \E c \in Callers : Cancel(c)
    \/ \E c \in Callers : CancelResume(c)
    \/ \E c \in Callers, vol \in VolumeInputs, set_global, smooth \in BOOLEAN,
          n_steps \in StepInputs : SetVolume(c, vol, set_global, smooth, n_steps)
    \/ \E c \in Callers : VolFadeResume(c)
    \/ \E h \in 1..Len(handles) : EngineEnd(h)

Spec == Init /\ [][Next]_vars

\* The scheduler runs every task that is ready: a session task whose sleep is
\* over and a caller whose sleep is over are resumed.  Nothing obliges a
\* caller to make a call or a track to end.
FairSpec ==
    /\ Spec
    /\ \A t \in 1..MaxTasks : WF_vars(t <= Len(tasks) /\ SessionStep(t))
    /\ \A c \in Callers : WF_vars(CallerResume(c))

-----------------------------------------------------------------------------
(* Directory resolution on its own: every combination of a directory set   *)
(* or unset on the track list, the group and the manager, resolved by the  *)
(* first step of a session.                                                *)

ResolveDirs == {None, Some("/d1"), Some("/d2"), Some("/d3")}

\* The dict d with key "directory" added when dir is present.
WithDirectory(d, dir) ==
    IF dir = None THEN d
    ELSE [k \in DOMAIN d \cup {"directory"} |->
             IF k = "directory" THEN Get(dir) ELSE d[k]]

InitResolve ==
    /\ \E md, gd, td \in ResolveDirs, v \in InitVolumes :
          LET tl == WithDirectory([name |-> "T", loop |-> FALSE, shuffle |-> FALSE,
                                   tracks |-> <<TrackConfigA>>], td)
              g == WithDirectory([name |-> "G", track_lists |-> <<tl>>], gd)
          IN  MusicManagerInit(WithDirectory([volume |-> v, groups |-> <<g>>], md))
    /\ files = {JoinPath(Get(d), "a.mp3") : d \in ResolveDirs \ {None}}
    /\ tasks = <<>>
    /\ handles = <<>>
    /\ callers = [c \in Callers |-> IdleCaller]
    /\ nvolume = 0

NextResolve ==
    \/ \E c \in Callers : PlayTrackList(c, 0, 0)
    \/ \E t \in 1..Len(tasks) : TaskFirstStep(t)
    \/ \E c \in Callers : PlaySleepResume(c)

SpecResolve == InitResolve /\ [][NextResolve]_vars

-----------------------------------------------------------------------------
(* Definitions used to state the properties.                               *)

TaskIds == 1..Len(tasks)

HandleIds == 1..Len(handles)

AliveTasks == {t \in TaskIds : Alive(tasks[t])}

PlayingHandles == {h \in HandleIds : handles[h].state = "playing"}

\* A caller suspended in the loop of cancel().
WaitingInCancel(c) == callers[c].pc \in {"cancel_wait", "play_cancel"}

\* The files for which task t created an engine handle, in order.
OpenedBy(t) ==
    LET F[n \in 0..Len(handles)] ==
            IF n = 0 THEN <<>>
            ELSE IF handles[n].owner = t THEN Append(F[n - 1], handles[n].path[2])
            ELSE F[n - 1]
    IN  F[Len(handles)]

\* The configured files of a track list, in configured order.
ConfiguredFiles(track_list) ==
    [j \in 1..Len(track_list.tracks) |-> track_list.tracks[j].file]

\* The first n files of the configured order repeated pass after pass.
Passes(fs, n) == [j \in 1..n |-> fs[((j - 1) % Len(fs)) + 1]]

\* No directory is set on the track list, the group or the manager.
NoDirectoryFor(group, track_list) ==
    track_list.directory = None /\ group.directory = None /\ directory = None

-----------------------------------------------------------------------------
(* C1 *)

\* C1: in every reachable state at most one session task is alive and at most
\* one engine handle is playing; a playing handle belongs to the session that
\* is alive and is the manager's current_player; and as long as a new session
\* task has not run (so has created no handle yet), the previous session's
\* teardown is complete: current_player is absent and no handle is playing.
C1_SingleSession ==
    /\ Cardinality(AliveTasks) <= 1
    /\ Cardinality(PlayingHandles) <= 1
    /\ \A h \in PlayingHandles :
          /\ handles[h].owner \in AliveTasks
          /\ current_player = Some(h)
    /\ \A t \in TaskIds :
          tasks[t].pc = "created" =>
              /\ current_player = None
              /\ PlayingHandles = {}
              /\ currently_playing = Some([group |-> tasks[t].group,
                                           track_list |-> tasks[t].track_list,
                                           task |-> t])

\* A second session plays its first handle after a first session that had
\* created a handle of its own.
C1_Witness ==
    /\ Len(tasks) = 2
    /\ Len(handles) = 2
    /\ handles[1].owner = 1
    /\ handles[2].owner = 2
    /\ handles[2].state = "playing"
    /\ ~Alive(tasks[1])

-----------------------------------------------------------------------------
(* C2 *)

\* C2: currently_playing is present if and only if a session task is alive
\* (whenever a session task ends, by natural completion, by cancellation or
\* by a session-time error, currently_playing and current_player are absent).
C2_SessionPresentIffAlive ==
    /\ (currently_playing # None) <=> (AliveTasks # {})
    /\ (AliveTasks = {}) => (current_player = None)

-----------------------------------------------------------------------------
(* C3 *)

\* C3: under fair scheduling every call of cancel() eventually returns: a
\* caller suspended in cancel()'s loop eventually leaves it.
C3_CancelReturns ==
    \A c \in Callers : WaitingInCancel(c) ~> ~WaitingInCancel(c)

\* C3, as a condition on single states: a caller suspended in cancel()'s loop
\* can still be released, that is currently_playing is absent already or a
\* session task is alive that will run the cleanup.
C3_CancelCanReturn ==
    \A c \in Callers :
        WaitingInCancel(c) => (currently_playing = None \/ AliveTasks # {})

-----------------------------------------------------------------------------
(* C4 *)

\* C4: in the step in which a cancel() that found a session active returns
\* (the caller leaves cancel()'s loop), the cleanup has executed: no engine
\* handle is playing, current_player is absent and currently_playing is absent.
C4_CancelReturnsAfterCleanup ==
    [][\A c \in Callers :
          (WaitingInCancel(c) /\ ~WaitingInCancel(c)') =>
              /\ PlayingHandles = {}
              /\ current_player = None
              /\ currently_playing = None
              /\ AliveTasks = {}]_vars

\* A caller is suspended in cancel()'s loop, the session it cancelled has run
\* its cleanup and stopped the handle it was using: cancel() returns next.
C4_Witness ==
    \E c \in Callers :
        /\ WaitingInCancel(c)
        /\ currently_playing = None
        /\ \E h \in HandleIds : handles[h].state = "stopped"
        /\ \E t \in TaskIds : tasks[t].exit = "cancel"

-----------------------------------------------------------------------------
(* C5 *)

\* C5: for a track list with shuffle unset, the files for which a session has
\* created engine handles are the configured files in configured order, pass
\* after pass; with loop unset there is at most one pass, and a session that
\* has ended by itself has created a handle for each configured track exactly
\* once; with loop set the session never ends by itself.
C5_ConfiguredOrder ==
    \A t \in TaskIds :
        LET track_list == tasks[t].track_list
            fs == ConfiguredFiles(track_list)
            opened == OpenedBy(t)
        IN  /\ ~track_list.shuffle => opened = Passes(fs, Len(opened))
            /\ ~track_list.loop => Len(opened) <= Len(fs)
            /\ (~track_list.shuffle /\ ~track_list.loop /\ tasks[t].pc = "done")
                   => opened = fs
            /\ track_list.loop => tasks[t].pc # "done"

\* A session of a two-track list with loop and shuffle unset has ended by
\* itself after playing a.mp3 then b.mp3.
C5_Witness ==
    \E t \in TaskIds :
        /\ tasks[t].pc = "done"
        /\ ~tasks[t].track_list.loop
        /\ ~tasks[t].track_list.shuffle
        /\ OpenedBy(t) = <<"a.mp3", "b.mp3">>

\* With loop set, a session has started a second pass.
C5_WitnessLoop ==
    \E t \in TaskIds :
        /\ tasks[t].track_list.loop
        /\ Len(tasks[t].track_list.tracks) = 1
        /\ OpenedBy(t) = <<"a.mp3", "a.mp3">>

-----------------------------------------------------------------------------
(* C6 *)

\* C6: if no directory is set on the track list, the group or the manager, a
\* session creates no engine handle, the directory error is not raised to any
\* caller, and once the session task has ended without any cancel() having
\* reached it, currently_playing is absent (it does not still name that task).
C6_NoDirectoryEndsSession ==
    \A t \in TaskIds :
        NoDirectoryFor(tasks[t].group, tasks[t].track_list) =>
            /\ OpenedBy(t) = <<>>
            /\ \A c \in Callers : callers[c].result # "ValueError"
            /\ (~Alive(tasks[t]) /\ tasks[t].exit # "unstarted"
                  /\ currently_playing # None)
                   => Get(currently_playing).task # t

-----------------------------------------------------------------------------
(* C7 *)

\* C7: the step in which a session ends because a track's file does not exist
\* or the engine reports a start failure leaves no handle playing, clears
\* current_player and currently_playing, leaves the global volume unchanged
\* and raises nothing to any caller.
C7_FailureIsCleanup ==
    [][\A t \in TaskIds :
          (Alive(tasks[t]) /\ tasks'[t].exit \in {"nofile", "startfail"}) =>
              /\ tasks'[t].pc = "cancelled"
              /\ \A h \in 1..Len(handles') : handles'[h].state # "playing"
              /\ (tasks'[t].exit = "nofile" /\ current_player # None)
                     => handles'[Get(current_player)].state = "stopped"
              /\ tasks'[t].exit = "startfail"
                     => handles'[Len(handles')].state = "stopped"
              /\ current_player' = None
              /\ currently_playing' = None
              /\ volume' = volume
              /\ callers' = callers]_vars

\* A session has ended on a missing file at its second track, after its first
\* track's handle.
C7_Witness ==
    \E t \in TaskIds :
        /\ tasks[t].exit = "nofile"
        /\ OpenedBy(t) = <<"a.mp3">>
        /\ currently_playing = None
        /\ current_player = None

-----------------------------------------------------------------------------
(* C8 *)

\* The directory the lookup order of _get_track_list_root_directory names.
ExpectedRoot(group, track_list) ==
    IF track_list.directory # None THEN track_list.directory
    ELSE IF group.directory # None THEN group.directory
    ELSE directory

\* C8: a session that has run its first step has opened its file in the track
\* list's directory if set, else the group's if set, else the manager's if
\* set; it has failed on the directory exactly when all three are unset.
C8_ResolutionOrder ==
    \A t \in TaskIds :
        LET expected == ExpectedRoot(tasks[t].group, tasks[t].track_list)
        IN  (tasks[t].pc # "created" /\ tasks[t].exit # "unstarted") =>
              /\ (expected = None) <=> (tasks[t].exit = "nodir")
              /\ expected # None =>
                    \E h \in HandleIds :
                        /\ handles[h].owner = t
                        /\ handles[h].path = JoinPath(Get(expected), "a.mp3")

\* A session has opened its file in the group's directory although the
\* manager has a directory too, the track list having none.
C8_Witness ==
    \E t \in TaskIds, h \in HandleIds :
        /\ tasks[t].track_list.directory = None
        /\ tasks[t].group.directory = Some("/d2")
        /\ directory = Some("/d1")
        /\ handles[h].owner = t
        /\ handles[h].path = JoinPath("/d2", "a.mp3")

-----------------------------------------------------------------------------
(* C9 *)

\* C9: cancel() called when no session is active returns in the same step
\* (it does not suspend) and leaves volume, currently_playing, current_player,
\* the configuration, the tasks and the engine handles unchanged.
C9_IdleCancelIsNoOp ==
    [][\A c \in Callers :
          (Cancel(c) /\ currently_playing = None) =>
              /\ callers'[c] = Ended("returned")
              /\ UNCHANGED <<volume, currently_playing, current_player,
                             directory, groups, tasks, handles>>]_vars

\* A call of c2, which calls play_track_list and cancel only, has returned
\* and no session task was ever created: it was a cancel() on an idle manager.
C9_Witness ==
    /\ callers["c2"].result = "returned"
    /\ Len(tasks) = 0
    /\ currently_playing = None

-----------------------------------------------------------------------------
(* C10 *)

\* C10: in every reachable state the manager's global volume is an integer in
\* the range 0..100.
C10_VolumeInRange == volume \in 0..100

-----------------------------------------------------------------------------
(* C11 *)

\* C11: in the step in which a call set_volume(v, set_global=True) ends,
\* whichever path it took (no handle, immediate set, or the end of a fade,
\* completed or not), the manager's global volume is v.
C11_GlobalVolumeStored ==
    [][\A c \in Callers :
          /\ \A vol \in VolumeInputs, smooth \in BOOLEAN, n_steps \in StepInputs :
                (SetVolume(c, vol, TRUE, smooth, n_steps) /\ callers'[c].pc = "idle")
                    => volume' = vol
          /\ (callers[c].pc = "vol_fade" /\ callers[c].set_global
                /\ callers'[c].pc = "idle")
                    => volume' = callers[c].vol]_vars

-----------------------------------------------------------------------------
(* C12 *)
(* The fade of set_volume on its own: a session is in its poll loop with   *)
(* its handle at some volume, and a caller makes one smooth set_volume     *)
(* call, which then runs to its end.                                       *)

\* Handle volumes the fade starts from and targets it is given.
FadeVolumes == {0, 20, 50, 100}

\* n_steps arguments of the fade.
FadeSteps == 1..4

InitFade ==
    /\ config = None
    /\ \E cfg \in Configs :
          /\ HasKey(cfg, "directory")
          /\ cfg.groups[1].track_lists[1] =
                [name |-> "T", loop |-> FALSE, shuffle |-> FALSE,
                 tracks |-> <<TrackConfigA>>]
          /\ volume = Manager(cfg).volume
          /\ directory = Manager(cfg).directory
          /\ groups = Manager(cfg).groups
    /\ files \in FileSystems
    /\ currently_playing = Some([group |-> groups[1],
                                 track_list |-> groups[1].track_lists[1], task |-> 1])
    /\ current_player = Some(1)
    /\ tasks = <<[NewTask(groups[1], groups[1].track_lists[1])
                    EXCEPT !.pc = "poll", !.tracks = <<TrackA>>, !.k = 1]>>
    /\ \E v0 \in FadeVolumes :
          handles = <<[MediaPlayer(JoinPath("/music", "a.mp3"), 1)
                         EXCEPT !.state = "playing", !.volume = v0]>>
    /\ callers = [c \in Callers |-> IdleCaller]
    /\ nvolume = 0

NextFade ==
    \/ \E vol \in FadeVolumes, set_global \in BOOLEAN, n_steps \in FadeSteps :
          SetVolume("c1", vol, set_global, TRUE, n_steps)
    \/ VolFadeResume("c1")

SpecFade == InitFade /\ [][NextFade]_vars

\* C12: a smooth set_volume from handle volume V0 to vol over n_steps steps
\* performs exactly n_steps writes (the one of its first step and those it
\* has still to make, which every later step takes in order), the write of
\* step i is an integer nearest to V0 - (i + 1) * (V0 - vol) / n_steps, and
\* the last write is vol.
C12_FadeWrites ==
    [][LET \* q is an integer nearest to num / den (den > 0)
           IsNearest(q, num, den) ==
               LET d == q * den - num
               IN  2 * (IF d >= 0 THEN d ELSE -d) <= den
       IN
       /\ \A vol \in FadeVolumes, set_global \in BOOLEAN, n_steps \in FadeSteps :
             SetVolume("c1", vol, set_global, TRUE, n_steps) =>
                LET v0 == AudioGetVolume(handles, current_player)
                    writes == <<AudioGetVolume(handles', current_player)>>
                                  \o callers'["c1"].fade
                IN  /\ Len(writes) = n_steps
                    /\ \A i \in 0..(n_steps - 1) :
                          IsNearest(writes[i + 1],
                                    v0 * n_steps - (i + 1) * (v0 - vol), n_steps)
                    /\ writes[n_steps] = vol
       /\ (VolFadeResume("c1") /\ callers["c1"].fade # <<>>) =>
             /\ AudioGetVolume(handles', current_player) = Head(callers["c1"].fade)
             /\ callers'["c1"].fade = Tail(callers["c1"].fade)]_vars

-----------------------------------------------------------------------------
(* C13 *)

\* C13: a fade that was between two steps when the session owning the handle
\* was torn down is abandoned cleanly: no call of set_volume ends with an
\* error raised to its caller, and no session task ends with one.
C13_FadeAbandonedCleanly ==
    /\ \A c \in Callers : callers[c].result # "AttributeError"
    /\ \A t \in TaskIds : tasks[t].pc # "crashed"

-----------------------------------------------------------------------------
(* C14 *)
(* play_track_list called with any index, negative ones included, by two   *)
(* callers, with the sessions it starts.                                   *)

\* Indices the callers pass here: with one group of one track list, 0 and -1
\* are the indices Python accepts, -2 and 1 those it rejects.
AnyIndexInputs == {-2, -1, 0, 1}

NextIndex ==
    \/ \E c \in Callers, gi, ti \in AnyIndexInputs : PlayTrackList(c, gi, ti)
    \/ \E c \in Callers : PlayCancelResume(c)
    \/ \E c \in Callers : PlaySleepResume(c)
    \/ \E t \in 1..Len(tasks) : TaskFirstStep(t)
    \/ \E t \in 1..Len(tasks) : SettleResume(t)
    \/ \E t \in 1..Len(tasks) : FadeResume(t)
    \/ \E t \in 1..Len(tasks) : PollResume(t)
    \/ \E h \in 1..Len(handles) : EngineEnd(h)

SpecIndex == Init /\ [][NextIndex]_vars

\* C14: a call of play_track_list whose group_index is outside
\* 0..len(groups)-1, or whose track_list_index is outside
\* 0..len(group.track_lists)-1, ends in its first step with IndexError and
\* leaves the tasks (no cancellation is requested), currently_playing,
\* current_player, the handles and volume unchanged.
C14_IndexErrorBeforeCancel ==
    [][\A c \in Callers, gi, ti \in AnyIndexInputs :
          (/\ PlayTrackList(c, gi, ti)
           /\ \/ gi \notin 0..(Len(groups) - 1)
              \/ ti \notin 0..(Len(groups[gi + 1].track_lists) - 1))
          => /\ callers'[c] = Ended("IndexError")
             /\ UNCHANGED <<tasks, currently_playing, current_player, handles,
                            volume>>]_vars

-----------------------------------------------------------------------------
(* Construction on its own: MusicManager.__init__ applied to configs whose *)
(* optional keys are given or not, whose names are in any order, followed  *)
(* by play_track_list and the sessions it starts.                          *)

\* The dict with the keys of d1 and of d2 (d2's value where both have one).
Merge(d1, d2) ==
    [k \in DOMAIN d1 \cup DOMAIN d2 |-> IF k \in DOMAIN d2 THEN d2[k] ELSE d1[k]]

NoKeys == [k \in {} |-> TRUE]

\* Optional keys of a track list config, given or left out.
TrackListOptions ==
    {NoKeys,
     [directory |-> "/jazz"],
     [loop |-> FALSE, shuffle |-> FALSE],
     [loop |-> TRUE, shuffle |-> TRUE, directory |-> "/music"]}

\* The "sort" key of a group or manager config: left out, true or false.
SortOptions == {NoKeys, [sort |-> TRUE], [sort |-> FALSE]}

\* A track list config of two tracks whose optional keys and name vary, and
\* a fixed one.
VariedTrackListConfigs ==
    {Merge([name |-> n, tracks |-> <<TrackConfigB, TrackConfigA>>], o) :
        n \in {"B", "T", "a"}, o \in TrackListOptions}

FixedTrackListConfig ==
    [name |-> "T", loop |-> FALSE, shuffle |-> FALSE, tracks |-> <<TrackConfigA>>]

\* Group configs: "G" with two track lists in either order, and a fixed "B".
VariedGroupConfigs ==
    {Merge([name |-> "G", track_lists |-> tls], o) :
        tls \in UNION {{<<tl, FixedTrackListConfig>>, <<FixedTrackListConfig, tl>>} :
                          tl \in VariedTrackListConfigs},
        o \in SortOptions}

FixedGroupConfig == [name |-> "B", track_lists |-> <<FixedTrackListConfig>>]

ConfigInputs ==
    {Merge([volume |-> v, directory |-> "/music", groups |-> gs], o) :
        v \in InitVolumes,
        gs \in UNION {{<<g, FixedGroupConfig>>, <<FixedGroupConfig, g>>} :
                         g \in VariedGroupConfigs},
        o \in SortOptions}

\* Before construction: the dict is at hand, the manager has no attributes
\* yet (0, None and the empty tuple stand for the unassigned ones).
InitConfig ==
    /\ config \in {Some(cfg) : cfg \in ConfigInputs}
    /\ volume = 0
    /\ directory = None
    /\ groups = <<>>
    /\ currently_playing = None
    /\ current_player = None
    /\ files \in FileSystems
    /\ tasks = <<>>
    /\ handles = <<>>
    /\ callers = [c \in Callers |-> IdleCaller]
    /\ nvolume = 0

\* MusicManager(config)
Construct ==
    /\ config # None
    /\ LET m == Manager(Get(config))
       IN  /\ volume' = m.volume
           /\ directory' = m.directory
           /\ groups' = m.groups
    /\ currently_playing' = None
    /\ current_player' = None
    /\ config' = None
    /\ UNCHANGED <<files, tasks, handles, callers, nvolume>>

Constructed == config = None

NextConfig ==
    \/ Construct
    \/ \E gi, ti \in IndexInputs : Constructed /\ PlayTrackList("c1", gi, ti)
    \/ Constructed /\ PlayCancelResume("c1")
    \/ Constructed /\ PlaySleepResume("c1")
    \/ \E t \in 1..Len(tasks) : TaskFirstStep(t)
    \/ \E t \in 1..Len(tasks) : SettleResume(t)
    \/ \E t \in 1..Len(tasks) : FadeResume(t)
    \/ \E t \in 1..Len(tasks) : PollResume(t)
    \/ \E h \in 1..Len(handles) : EngineEnd(h)

SpecConfig == InitConfig /\ [][NextConfig]_vars


\* Construction of a manager with one track list of two tracks, in either
\* configured order, shuffled or not, looping or not, followed by every
\* call a caller can make.
TrackOrderConfigs ==
    {[volume |-> v, directory |-> "/music",
      groups |-> <<[name |-> "G",
                    track_lists |-> <<Merge([name |-> "T", tracks |-> trks], o)>>]>>] :
        v \in InitVolumes,
        trks \in {<<TrackConfigA, TrackConfigB>>, <<TrackConfigB, TrackConfigA>>},
        o \in {NoKeys, [shuffle |-> FALSE], [loop |-> FALSE],
               [loop |-> FALSE, shuffle |-> FALSE]}}

InitTracks ==
    /\ config \in {Some(cfg) : cfg \in TrackOrderConfigs}
    /\ volume = 0
    /\ directory = None
    /\ groups = <<>>
    /\ currently_playing = None
    /\ current_player = None
    /\ files \in FileSystems
    /\ tasks = <<>>
    /\ handles = <<>>
    /\ callers = [c \in Callers |-> IdleCaller]
    /\ nvolume = 0

NextTracks ==
    \/ Construct
    \/ Constructed /\ PlayTrackList("c1", 0, 0)
    \/ Constructed /\ PlayCancelResume("c1")
    \/ Constructed /\ PlaySleepResume("c1")
    \/ Constructed /\ Cancel("c1")
    \/ Constructed /\ CancelResume("c1")
    \/ \E vol \in VolumeInputs, set_global, smooth \in BOOLEAN, n_steps \in StepInputs :
          Constructed /\ SetVolume("c1", vol, set_global, smooth, n_steps)
    \/ Constructed /\ VolFadeResume("c1")
    \/ \E t \in 1..Len(tasks) : TaskFirstStep(t)
    \/ \E t \in 1..Len(tasks) : SettleResume(t)
    \/ \E t \in 1..Len(tasks) : FadeResume(t)
    \/ \E t \in 1..Len(tasks) : PollResume(t)
    \/ \E h \in 1..Len(handles) : EngineEnd(h)

SpecTracks == InitTracks /\ [][NextTracks]_vars


-----------------------------------------------------------------------------
(* Claims about construction.                                              *)

Range(s) == {s[i] : i \in DOMAIN s}

\* What a track entry of a config says, read off the entry itself.
EntryFile(entry) == IF "str" \in DOMAIN entry THEN entry.str ELSE entry.file

EntryMs(entry, key) ==
    IF "str" \in DOMAIN entry \/ key \notin DOMAIN entry THEN None
    ELSE Some(1000 * entry[key][3] + 60000 * entry[key][2] + 3600000 * entry[key][1])

\* tracks holds one Track per entry of entries, in the order of the entries.
TracksAsConfigured(tracks, entries) ==
    /\ Len(tracks) = Len(entries)
    /\ \A k \in 1..Len(entries) :
          /\ tracks[k].file = EntryFile(entries[k])
          /\ tracks[k].start_at = EntryMs(entries[k], "start_at")
          /\ tracks[k].end_at = EntryMs(entries[k], "end_at")

\* Every track list of gs holds the tracks some configured track list of
\* that name and group gives it, and the other way round.
AllTracksAsConfigured(gs, cfg) ==
    /\ \A g \in Range(gs) : \A tl \in Range(g.track_lists) :
          \E gc \in Range(cfg.groups) : \E tlc \in Range(gc.track_lists) :
              /\ gc.name = g.name
              /\ tlc.name = tl.name
              /\ TracksAsConfigured(tl.tracks, tlc.tracks)
    /\ \A gc \in Range(cfg.groups) : \A tlc \in Range(gc.track_lists) :
          \E g \in Range(gs) : \E tl \in Range(g.track_lists) :
              /\ gc.name = g.name
              /\ tlc.name = tl.name
              /\ TracksAsConfigured(tl.tracks, tlc.tracks)

\* C15: construction stores, for every track list, one Track per configured
\* entry in the configured order, and no later step (a playback pass,
\* shuffled or not, a cancel call, a set_volume call) changes the stored
\* track lists; the track list a session plays is one of the stored ones.
C15_StoredTracksFixed ==
    [][/\ Construct => AllTracksAsConfigured(groups', Get(config))
       /\ Constructed =>
             /\ groups' = groups
             /\ \A t \in 1..Len(tasks') :
                   \E g \in Range(groups) : tasks'[t].track_list \in Range(g.track_lists)]_vars

\* A shuffled pass is playing the tracks in the order opposite to the stored
\* one, after an earlier session was cancelled.
C15_Witness ==
    /\ Constructed
    /\ \E t \in TaskIds :
          /\ t > 1
          /\ tasks[t].pc = "poll"
          /\ tasks[t].track_list.shuffle
          /\ Len(tasks[t].tracks) = 2
          /\ tasks[t].tracks[1] = tasks[t].track_list.tracks[2]
          /\ tasks[t].track_list = groups[1].track_lists[1]
    /\ nvolume > 0


\* The track list tl has the name and the number of tracks of the config
\* tlc, the value of every optional key tlc gives and the default of every
\* optional key tlc leaves out.
OptionsAsConfigured(tl, tlc) ==
    /\ tl.name = tlc.name
    /\ Len(tl.tracks) = Len(tlc.tracks)
    /\ "directory" \in DOMAIN tlc => tl.directory = Some(tlc.directory)
    /\ "directory" \notin DOMAIN tlc => tl.directory = None
    /\ "loop" \in DOMAIN tlc => tl.loop = tlc.loop
    /\ "loop" \notin DOMAIN tlc => tl.loop = TRUE
    /\ "shuffle" \in DOMAIN tlc => tl.shuffle = tlc.shuffle
    /\ "shuffle" \notin DOMAIN tlc => tl.shuffle = TRUE

\* C16: a TrackList built from a config takes, for directory, loop and
\* shuffle, the value the config supplies, and where the config omits the
\* key its default: no directory, loop true, shuffle true.
C16_OptionalKeyDefaults ==
    [][Construct =>
          /\ \A gc \in Range(Get(config).groups) : \A tlc \in Range(gc.track_lists) :
                \E g \in Range(groups') : \E tl \in Range(g.track_lists) :
                    g.name = gc.name /\ OptionsAsConfigured(tl, tlc)
          /\ \A g \in Range(groups') : \A tl \in Range(g.track_lists) :
                \E gc \in Range(Get(config).groups) : \E tlc \in Range(gc.track_lists) :
                    g.name = gc.name /\ OptionsAsConfigured(tl, tlc)]_vars

\* A session plays a track list built from a config without any optional key
\* (of the configs drawn, only that one gives no directory and loops), and
\* the manager also holds one built from a config that supplied loop and
\* shuffle.
C16_Witness ==
    /\ Constructed
    /\ \E t \in TaskIds :
          /\ tasks[t].pc = "poll"
          /\ tasks[t].track_list.directory = None
          /\ tasks[t].track_list.loop
          /\ tasks[t].track_list.shuffle
          /\ Len(tasks[t].track_list.tracks) = 2
    /\ \E g \in Range(groups) : \E tl \in Range(g.track_lists) :
          ~tl.loop /\ ~tl.shuffle


Perms(n) == {p \in [1..n -> 1..n] : \A i, j \in 1..n : i # j => p[i] # p[j]}

\* The tuple stored is in non-decreasing order of name.
SortedNames(stored) ==
    \A i, j \in 1..Len(stored) :
        i < j => NameRank(stored[i].name) <= NameRank(stored[j].name)

\* cfg, a group or manager config, has no "sort" key or a true one.
SortAbsentOrTrue(cfg) == "sort" \notin DOMAIN cfg \/ cfg.sort

TrackListMatches(tl, tlc) ==
    OptionsAsConfigured(tl, tlc) /\ TracksAsConfigured(tl.tracks, tlc.tracks)

\* The track lists stored for the group config gc are a permutation of the
\* objects its entries describe, in non-decreasing order of name when gc
\* has no "sort" key or a true one, and in the order of the entries when
\* gc["sort"] is false.
ArrangedTrackLists(stored, gc) ==
    LET cfgs == gc.track_lists
    IN  /\ Len(stored) = Len(cfgs)
        /\ \E p \in Perms(Len(cfgs)) :
               \A j \in 1..Len(cfgs) : TrackListMatches(stored[p[j]], cfgs[j])
        /\ IF SortAbsentOrTrue(gc) THEN SortedNames(stored)
           ELSE \A j \in 1..Len(cfgs) : TrackListMatches(stored[j], cfgs[j])

GroupMatches(g, gc) ==
    /\ g.name = gc.name
    /\ ArrangedTrackLists(g.track_lists, gc)

\* The same for the groups stored for the manager config cfg.
ArrangedGroups(stored, cfg) ==
    LET cfgs == cfg.groups
    IN  /\ Len(stored) = Len(cfgs)
        /\ \E p \in Perms(Len(cfgs)) :
               \A j \in 1..Len(cfgs) : GroupMatches(stored[p[j]], cfgs[j])
        /\ IF SortAbsentOrTrue(cfg) THEN SortedNames(stored)
           ELSE \A j \in 1..Len(cfgs) : GroupMatches(stored[j], cfgs[j])

\* play_track_list(gi, ti) called by c took the objects at positions gi and
\* ti (counted from 0) of the stored tuples, or raised IndexError because
\* there are none.
PlaysStoredIndex(c, gi, ti) ==
    IF callers'[c].pc = "idle"
    THEN /\ callers'[c].result = "IndexError"
         /\ gi + 1 > Len(groups) \/ ti + 1 > Len(groups[gi + 1].track_lists)
    ELSE LET group == groups[gi + 1]
             track_list == group.track_lists[ti + 1]
         IN  IF callers'[c].pc = "play_cancel"
             THEN /\ callers'[c].group = Some(group)
                  /\ callers'[c].track_list = Some(track_list)
             ELSE /\ Len(tasks') = Len(tasks) + 1
                  /\ tasks'[Len(tasks')].group = group
                  /\ tasks'[Len(tasks')].track_list = track_list

\* C17: construction stores the groups, and in each group its track lists,
\* as a permutation of the configured entries, sorted by name when "sort" is
\* absent or true and in the configured order when it is false; the indices
\* given to play_track_list select from these stored tuples.
C17_SortedUnlessDisabled ==
    [][/\ Construct => ArrangedGroups(groups', Get(config))
       /\ \A gi, ti \in IndexInputs :
             Constructed /\ PlayTrackList("c1", gi, ti) => PlaysStoredIndex("c1", gi, ti)
       /\ Constructed /\ PlayCancelResume("c1") =>
             /\ tasks'[Len(tasks')].group = Get(callers["c1"].group)
             /\ tasks'[Len(tasks')].track_list = Get(callers["c1"].track_list)]_vars

\* The groups were stored sorted ("B" before "G"), the track lists of "G"
\* too ("T" before "a"), and a session plays the track list asked for by
\* the indices 1, 1: the one named "a".
C17_Witness ==
    /\ Constructed
    /\ Len(groups) = 2
    /\ groups[1].name = "B"
    /\ groups[2].name = "G"
    /\ groups[2].track_lists[1].name = "T"
    /\ groups[2].track_lists[2].name = "a"
    /\ \E t \in TaskIds :
          /\ tasks[t].pc = "poll"
          /\ tasks[t].track_list = groups[2].track_lists[2]
          /\ tasks[t].group = groups[2]


-----------------------------------------------------------------------------
(* Claims about the session's ends and its volume.                         *)

\* C18: whenever a session that was asked to cancel runs its cleanup with an
\* engine handle live, whichever await the cancellation was observed at (the
\* settle delay, a fade step, the poll loop), the handle has been brought to
\* volume 0 by then, and the cleanup stops it and clears current_player and
\* currently_playing.
C18_MutedThenStopped ==
    [][\A t \in TaskIds :
          /\ Alive(tasks[t])
          /\ tasks'[t].pc = "cancelled"
          /\ tasks'[t].exit = "cancel"
          /\ current_player # None
          => /\ handles[Get(current_player)].volume = 0
             /\ handles'[Get(current_player)].state = "stopped"
             /\ current_player' = None
             /\ currently_playing' = None]_vars


\* C19: no step of a session (its fade-in for a new track, its fade-out on
\* cancellation, or any other) changes the manager's volume; once the
\* manager is constructed the volume changes only at the end of a
\* set_volume call made with set_global true, to that call's volume.
C19_SessionFadesKeepGlobalVolume ==
    [][Constructed =>
          /\ \A t \in TaskIds :
                TaskFirstStep(t) \/ SettleResume(t) \/ FadeResume(t) \/ PollResume(t)
                => volume' = volume
          /\ volume' # volume =>
                \E c \in Callers :
                    \/ \E vol \in VolumeInputs, smooth \in BOOLEAN, n_steps \in StepInputs :
                          SetVolume(c, vol, TRUE, smooth, n_steps) /\ volume' = vol
                    \/ /\ VolFadeResume(c)
                       /\ callers[c].set_global
                       /\ volume' = callers[c].vol]_vars

\* A session has faded its track in and, cancelled, has faded it out to 0,
\* and a set_volume call has been made; the volume is the configured one.
C19_Witness ==
    /\ Constructed
    /\ volume = 40
    /\ nvolume > 0
    /\ current_player # None
    /\ \E t \in TaskIds :
          /\ tasks[t].pc = "fadeout"
          /\ tasks[t].fade = <<>>
          /\ handles[Get(current_player)].volume = 0


-----------------------------------------------------------------------------
(* The end of a track on its own: sessions over tracks with and without    *)
(* end_at, one of them set to start at its end_at, so that every position  *)
(* the engine can report at its first poll has reached end_at.             *)

TrackConfigC == [file |-> "a.mp3", start_at |-> <<0, 0, 1>>, end_at |-> <<0, 0, 1>>]

EndAtConfigs ==
    {[volume |-> v, directory |-> "/music",
      groups |-> <<[name |-> "G",
                    track_lists |-> <<[name |-> "T", loop |-> l, shuffle |-> FALSE,
                                       tracks |-> trks]>>]>>] :
        v \in InitVolumes, l \in BOOLEAN,
        trks \in {<<TrackConfigA>>, <<TrackConfigC>>, <<TrackConfigB, TrackConfigA>>,
                  <<TrackConfigC, TrackConfigB>>}}

InitEndAt ==
    /\ \E cfg \in EndAtConfigs : MusicManagerInit(cfg)
    /\ files \in FileSystems
    /\ tasks = <<>>
    /\ handles = <<>>
    /\ callers = [c \in Callers |-> IdleCaller]
    /\ nvolume = 0

NextEndAt ==
    \/ PlayTrackList("c1", 0, 0)
    \/ PlayCancelResume("c1")
    \/ PlaySleepResume("c1")
    \/ Cancel("c1")
    \/ CancelResume("c1")
    \/ \E t \in 1..Len(tasks) : TaskFirstStep(t)
    \/ \E t \in 1..Len(tasks) : SettleResume(t)
    \/ \E t \in 1..Len(tasks) : FadeResume(t)
    \/ \E t \in 1..Len(tasks) : PollResume(t)
    \/ \E h \in 1..Len(handles) : EngineEnd(h)

SpecEndAt == InitEndAt /\ [][NextEndAt]_vars


\* The step is task t's test of line 228 finding its handle playing: on
\* resuming from the poll loop's sleep, or from the last sleep of the
\* fade-in, with no cancellation pending.
PollsPlaying(t) ==
    /\ ~tasks[t].must_cancel
    /\ \/ tasks[t].pc = "poll" /\ PollResume(t)
       \/ tasks[t].pc = "fadein" /\ tasks[t].fade = <<>> /\ FadeResume(t)
    /\ current_player # None
    /\ IsPlaying(handles, current_player)

\* C20: a poll of a track whose end_at is set stops the handle when the
\* position the engine reports has reached end_at (so at the first such
\* poll) and only then, without cleanup; at its next poll the session, if
\* not cancelled meanwhile, leaves the inner loop and goes to the next track
\* or ends the pass.  A poll of a track without end_at never stops the
\* handle: a handle is stopped only by such a poll or by cleanup.
C20_StopAtEndAt ==
    [][/\ \A t \in TaskIds :
             PollsPlaying(t) =>
                 LET track == tasks[t].tracks[tasks[t].k]
                     h == Get(current_player)
                 IN  /\ track.end_at = None => handles' = handles
                     /\ track.end_at # None /\ handles[h].time >= Get(track.end_at)
                            => handles'[h].state = "stopped"
                     /\ handles'[h].state = "stopped"
                            => /\ track.end_at # None
                               /\ \E now \in GetTimes(handles, current_player) :
                                      now >= Get(track.end_at)
                     /\ tasks'[t].pc = "poll"
                     /\ current_player' = current_player
                     /\ currently_playing' = currently_playing
       /\ \A t \in TaskIds :
             /\ tasks[t].pc = "poll"
             /\ ~tasks[t].must_cancel
             /\ PollResume(t)
             /\ current_player # None
             /\ handles[Get(current_player)].state = "stopped"
             => \/ /\ tasks'[t].pc = "settle"
                   /\ tasks'[t].k = IF tasks[t].k < Len(tasks[t].tracks)
                                    THEN tasks[t].k + 1 ELSE 1
                \/ /\ tasks'[t].pc = "done"
                   /\ tasks[t].k = Len(tasks[t].tracks)
                   /\ ~tasks[t].track_list.loop
                   /\ currently_playing' = currently_playing
                   /\ current_player' = current_player
                \/ /\ tasks'[t].pc = "cancelled"
                   /\ tasks'[t].exit \in {"nodir", "nofile", "startfail"}
       /\ \A h \in HandleIds :
             handles[h].state # "stopped" /\ handles'[h].state = "stopped"
             => \/ \E t \in TaskIds : Alive(tasks[t]) /\ tasks'[t].pc = "cancelled"
                \/ \E t \in TaskIds :
                      /\ PollsPlaying(t)
                      /\ current_player = Some(h)
                      /\ tasks[t].tracks[tasks[t].k].end_at # None]_vars

\* The session is at its second track after its first, a track with end_at,
\* was stopped by a poll: the task is alive, so no cleanup has run.
C20_Witness ==
    \E t \in TaskIds :
        /\ tasks[t].pc = "settle"
        /\ tasks[t].k = 2
        /\ tasks[t].tracks[1].end_at # None
        /\ handles[1].owner = t
        /\ handles[1].state = "stopped"


-----------------------------------------------------------------------------
(* C21 *)

\* C21: in every state, currently_playing absent implies current_player
\* absent; the two are cleared in one step, a session's cleanup; and
\* current_player is assigned a handle only by a step of the session task
\* that currently_playing names, while currently_playing is present.
C21_PlayerOnlyWithSession ==
    [][/\ currently_playing = None => current_player = None
       /\ currently_playing' = None => current_player' = None
       /\ currently_playing # None /\ currently_playing' = None
             => /\ current_player' = None
                /\ \E t \in TaskIds : Alive(tasks[t]) /\ tasks'[t].pc = "cancelled"
       /\ current_player # None /\ current_player' = None
             => currently_playing # None /\ currently_playing' = None
       /\ current_player' # None /\ current_player' # current_player
             => /\ currently_playing # None
                /\ currently_playing' = currently_playing
                /\ LET t == Get(currently_playing).task
                   IN  /\ TaskFirstStep(t) \/ SettleResume(t) \/ FadeResume(t) \/ PollResume(t)
                       /\ handles'[Get(current_player')].owner = t]_vars

\* A session has created its second handle, replacing the first, and a later
\* cleanup has cleared both fields after an earlier session was cleaned up
\* too.
C21_Witness ==
    /\ currently_playing = None
    /\ current_player = None
    /\ Len(handles) = 2
    /\ handles[1].owner = handles[2].owner
    /\ handles[2].state = "stopped"
    /\ \E t \in TaskIds : tasks[t].pc = "cancelled" /\ tasks[t].exit = "cancel"


-----------------------------------------------------------------------------
(* C22 *)

\* Sessions interleaved with external set_volume calls that are all made
\* with set_global true, smooth or immediate.
NextGlobal ==
    \/ \E gi, ti \in IndexInputs : PlayTrackList("c2", gi, ti)
    \/ PlayCancelResume("c2")
    \/ PlaySleepResume("c2")
    \/ \E vol \in VolumeInputs, smooth \in BOOLEAN, n_steps \in StepInputs :
          SetVolume("c1", vol, TRUE, smooth, n_steps)
    \/ VolFadeResume("c1")
    \/ \E t \in 1..Len(tasks) : TaskFirstStep(t)
    \/ \E t \in 1..Len(tasks) : SettleResume(t)
    \/ \E t \in 1..Len(tasks) : FadeResume(t)
    \/ \E t \in 1..Len(tasks) : PollResume(t)
    \/ \E h \in 1..Len(handles) : EngineEnd(h)

SpecGlobal == Init /\ [][NextGlobal]_vars

\* C22: when every external set_volume call is made with set_global true,
\* whenever a session is suspended in its poll loop with its handle playing
\* and no set_volume call is in progress (no caller is inside a fade; a
\* session in its own fade is not in the poll loop), the handle's volume
\* equals the manager's volume.
C22_PollVolumeIsGlobal ==
    \A t \in TaskIds :
        /\ tasks[t].pc = "poll"
        /\ \A c \in Callers : callers[c].pc # "vol_fade"
        /\ current_player # None
        /\ handles[Get(current_player)].owner = t
        /\ IsPlaying(handles, current_player)
        => AudioGetVolume(handles, current_player) = volume


-----------------------------------------------------------------------------
(* C23 *)

\* C23: every pass of a session's outer loop reaches an await, also for a
\* track list without tracks: no session task is ever in a step that never
\* ends (a loop that reaches no await, which keeps the event loop and lets
\* no cancellation be observed).
C23_EveryPassSuspends ==
    \A t \in TaskIds : tasks[t].pc # "spin"

====
